---- MODULE Spec2Model ----
(***************************************************************************)
(* Model of the star-shaped board of stelsalto (src/src/lib.rs): the       *)
(* board built by Board::new, the coordinate mapper get_index_pair /       *)
(* get_piece, the move validator move_piece / take_turn, their             *)
(* non-mutating variants try_move_piece / try_turn, the win detection      *)
(* has_player_won, the text form serialize, and the scripted Game::play.   *)
(*                                                                         *)
(* One caller owns the board and calls its methods one after the other.    *)
(* A call is one step: it records its arguments, the board before the      *)
(* call (pre) and what it returned.  The caller then drops the returned    *)
(* value and is ready for the next call.                                   *)
(***************************************************************************)
EXTENDS Integers, Sequences, FiniteSets, TLC

VARIABLES
    board,      \* the caller's Board: [rows, config]
    pc,         \* "idle": ready to call; "done": a call has returned (or aborted)
    op,         \* name of the last method called
    points,     \* its Point arguments, in order
    player,     \* its Piece argument
    result,     \* what it returned: "Ok", a GameError, or "Panic"
    pre,        \* the rows of the board when it was called
    calls,      \* number of calls made so far
    game        \* the Game being played: its pieces, the locals of play and
                \* where play stands; None while the caller plays no Game

vars == <<board, pc, op, points, player, result, pre, calls, game>>

------------------------------------------------------------------------------
(* Bounds of the exploration *)

\* number of method calls in one run
MaxCalls == 2

\* board sizes (Config.player_lines) the runs start from
BoardSizes == {1}

------------------------------------------------------------------------------
(* Data types *)

Players == {"Head", "Tail", "LeftHand", "RightHand", "LeftFoot", "RightFoot"}

Piece == Players \cup {"Empty"}

GameError == {"WrongPlayer", "OutOfBounds", "NoRoute", "OccupiedTarget", "Exhausted"}

Point(r, c) == [row |-> r, column |-> c]

IndexPair(r, c) == [row |-> r, column |-> c]

\* Option<T>
None == [some |-> FALSE]

Some(v) == [some |-> TRUE, val |-> v]

\* an arithmetic overflow that aborts the call (builds with overflow checks)
Abort == [some |-> FALSE, abort |-> TRUE]

IsAbort(o) == "abort" \in DOMAIN o

IsSome(o) == o.some

------------------------------------------------------------------------------
(* Machine integers.  Point holds i32 values; an overflowing i32 or usize  *)
(* operation aborts the call in a build with overflow checks and wraps in  *)
(* a build without them.                                                   *)

MaxI32 == 2147483647

MinI32 == -MaxI32 - 1

\* `a - b` on i32
I32Sub(a, b, overflow_checks) ==
    IF b > 0 /\ a < MinI32 + b
    THEN IF overflow_checks THEN Abort
         ELSE Some((a - MinI32) + (MaxI32 - b) + 1)
    ELSE IF b < 0 /\ a > MaxI32 + b
    THEN IF overflow_checks THEN Abort
         ELSE Some((a - MaxI32) + (MinI32 - b) - 1)
    ELSE Some(a - b)

\* i32::abs
I32Abs(x, overflow_checks) ==
    IF x = MinI32 THEN (IF overflow_checks THEN Abort ELSE Some(MinI32))
    ELSE Some(IF x < 0 THEN -x ELSE x)

\* `/ 2` on i32 rounds towards zero
I32Half(x) == IF x < 0 /\ x % 2 # 0 THEN (x \div 2) + 1 ELSE x \div 2

\* `x as usize` for an i32 x.  A negative x wraps to 2^64 + x, far above every
\* length and column of a board; the largest index the model can write stands
\* for each such value.
AsUsize(x) == IF x >= 0 THEN x ELSE MaxI32

\* `a - b` on usize; the wrapped difference is again far above every length
UsizeSub(a, b, overflow_checks) ==
    IF a >= b THEN Some(a - b)
    ELSE IF overflow_checks THEN Abort
    ELSE Some(MaxI32)

Max(a, b) == IF a >= b THEN a ELSE b

\* Vec::get
VecGet(v, i) == IF i < Len(v) THEN Some(v[i + 1]) ELSE None

Repeat(x, n) == [i \in 1..n |-> x]

------------------------------------------------------------------------------
(* Board::new *)

HeadRows(pl) == [n \in 1..pl |-> Repeat("Head", n)]

\* a slip: the hands are one piece short in every row
HandRowsShort(pl) ==
    [n \in 1..pl |->
        Repeat("LeftHand", pl - n) \o Repeat("Empty", pl + n)
            \o Repeat("RightHand", pl - n)]

HandRows(pl) ==
    [n \in 1..pl |->
        Repeat("LeftHand", pl + 1 - n) \o Repeat("Empty", pl + n)
            \o Repeat("RightHand", pl + 1 - n)]

\* a slip: the foot band is built for n = 1..N like the hand band, not reversed
FootRowsForward(pl) ==
    [n \in 1..pl |->
        Repeat("LeftFoot", pl + 1 - n) \o Repeat("Empty", pl + n)
            \o Repeat("RightFoot", pl + 1 - n)]

FootRows(pl) ==
    [i \in 1..pl |->
        LET n == pl + 1 - i IN
        Repeat("LeftFoot", pl + 1 - n) \o Repeat("Empty", pl + n)
            \o Repeat("RightFoot", pl + 1 - n)]

TailRows(pl) == [i \in 1..pl |-> Repeat("Tail", pl + 1 - i)]

BoardNew(pl) ==
    [rows |-> HeadRows(pl) \o HandRows(pl) \o <<Repeat("Empty", pl * 2 + 1)>>
                \o FootRows(pl) \o TailRows(pl),
     config |-> [player_lines |-> pl]]

\* a slip: the trial runs on a fresh board instead of a copy
FreshBoard(b) == BoardNew(b.config.player_lines)

\* #[derive(Clone)]: a new Board holding a copy of every cell
Clone(b) ==
    [rows |-> [i \in 1..Len(b.rows) |-> [j \in 1..Len(b.rows[i]) |-> b.rows[i][j]]],
     config |-> b.config]

------------------------------------------------------------------------------
(* Coordinate mapper *)

\* a slip: the offset of a row of even length is taken one step too far
ValidColumnsWide(max_pieces_per_row, len) ==
    IF len = 1 THEN <<max_pieces_per_row>>
    ELSE
        LET offset == IF len % 2 = 0 THEN 1 + 2 * (len \div 2)
                      ELSE 2 * ((len - 1) \div 2)
            first == max_pieces_per_row - offset
            last == max_pieces_per_row + offset
        IN  [k \in 1..(((last - first) \div 2) + 1) |-> first + 2 * (k - 1)]

\* the columns of the padded space that a row of `len` cells occupies
ValidColumns(max_pieces_per_row, len) ==
    IF len = 1 THEN <<max_pieces_per_row>>
    ELSE
        LET offset == IF len % 2 = 0 THEN 1 + 2 * ((len \div 2) - 1)
                      ELSE 2 * ((len - 1) \div 2)
            first == max_pieces_per_row - offset
            last == max_pieces_per_row + offset
        IN  [k \in 1..(((last - first) \div 2) + 1) |-> first + 2 * (k - 1)]

\* Iterator::position: 0-based index of the first element equal to x
Position(seq, x) ==
    IF \E k \in 1..Len(seq) : seq[k] = x
    THEN Some((CHOOSE k \in 1..Len(seq) :
                  seq[k] = x /\ \A j \in 1..(k - 1) : seq[j] # x) - 1)
    ELSE None

get_index_pair(b, point, overflow_checks) ==
    LET max_pieces_per_row == b.config.player_lines * 3 + 1
        row_index == UsizeSub(AsUsize(point.row), 1, overflow_checks)
    IN  IF IsAbort(row_index) THEN Abort
        ELSE
            LET row == VecGet(b.rows, row_index.val) IN
            IF ~IsSome(row) THEN None
            ELSE
                LET valid_columns == ValidColumns(max_pieces_per_row, Len(row.val))
                    pos == Position(valid_columns, AsUsize(point.column))
                IN  IF ~IsSome(pos) THEN None
                    ELSE Some(IndexPair(row_index.val, pos.val))

get_piece(b, point, overflow_checks) ==
    LET pair == get_index_pair(b, point, overflow_checks) IN
    IF ~IsSome(pair) THEN pair
    ELSE
        LET row == VecGet(b.rows, pair.val.row) IN
        IF ~IsSome(row) THEN None
        ELSE VecGet(row.val, pair.val.column)

------------------------------------------------------------------------------
(* Move validator.  A method that takes &mut self yields the value it      *)
(* returns and the board it leaves behind.                                 *)

Outcome(res, b) == [result |-> res, board |-> b]

\* Option::ok_or(GameError::OutOfBounds)?, or the abort passed on
Missing(o) == IF IsAbort(o) THEN "Panic" ELSE "OutOfBounds"

\* a slip: the row difference is halved like the column difference
DistanceHalved(from, to, overflow_checks) ==
    LET rows == I32Sub(from.row, to.row, overflow_checks) IN
    IF IsAbort(rows) THEN Abort
    ELSE LET columns == I32Sub(from.column, to.column, overflow_checks)
             a == I32Abs(IF rows.val = 0 THEN columns.val ELSE rows.val, overflow_checks)
         IN  IF rows.val = 0 /\ IsAbort(columns) THEN Abort
             ELSE IF IsAbort(a) THEN Abort ELSE Some(I32Half(a.val))

\* match from.row - to.row { 0 => (from.column - to.column).abs() / 2, x => x.abs() }
Distance(from, to, overflow_checks) ==
    LET rows == I32Sub(from.row, to.row, overflow_checks) IN
    IF IsAbort(rows) THEN Abort
    ELSE IF rows.val = 0
    THEN LET columns == I32Sub(from.column, to.column, overflow_checks) IN
         IF IsAbort(columns) THEN Abort
         ELSE LET a == I32Abs(columns.val, overflow_checks) IN
              IF IsAbort(a) THEN Abort ELSE Some(I32Half(a.val))
    ELSE I32Abs(rows.val, overflow_checks)

\* a slip: the owner of the source is not compared with the player
CheckSourceOnBoard(b, source, who, overflow_checks) ==
    LET source_piece == get_piece(b, source, overflow_checks) IN
    IF ~IsSome(source_piece) THEN Missing(source_piece) ELSE "Ok"

\* the source must be a cell holding the player's piece
CheckSource(b, source, who, overflow_checks) ==
    LET source_piece == get_piece(b, source, overflow_checks) IN
    IF ~IsSome(source_piece) THEN Missing(source_piece)
    ELSE IF source_piece.val # who THEN "WrongPlayer"
    ELSE "Ok"

\* a slip: the comparison with Empty is the wrong way round
CheckTargetInverted(b, target, overflow_checks) ==
    LET target_piece == get_piece(b, target, overflow_checks) IN
    IF ~IsSome(target_piece) THEN Missing(target_piece)
    ELSE IF target_piece.val = "Empty" THEN "OccupiedTarget"
    ELSE "Ok"

\* the target must be an Empty cell
CheckTarget(b, target, overflow_checks) ==
    LET target_piece == get_piece(b, target, overflow_checks) IN
    IF ~IsSome(target_piece) THEN Missing(target_piece)
    ELSE IF target_piece.val # "Empty" THEN "OccupiedTarget"
    ELSE "Ok"

\* the cell a jump is taken to pass over
MiddlePoint(source, target) ==
    Point(Max(source.row, target.row) - 1, Max(source.column, target.column) - 1)

\* a slip: a jump must also run along a row or a diagonal
CheckMiddleOnLine(b, source, target, distance, overflow_checks) ==
    IF distance = 2
    THEN LET middle_piece == get_piece(b, MiddlePoint(source, target), overflow_checks)
             across == IF source.column >= target.column
                       THEN source.column - target.column
                       ELSE target.column - source.column
         IN  IF ~IsSome(middle_piece) THEN Missing(middle_piece)
             ELSE IF middle_piece.val = "Empty" THEN "NoRoute"
             ELSE IF source.row = target.row \/ across = 2 THEN "Ok"
             ELSE "NoRoute"
    ELSE "Ok"

\* a jump must pass over a piece
CheckMiddle(b, source, target, distance, overflow_checks) ==
    IF distance = 2
    THEN LET middle_piece == get_piece(b, MiddlePoint(source, target), overflow_checks) IN
         IF ~IsSome(middle_piece) THEN Missing(middle_piece)
         ELSE IF middle_piece.val = "Empty" THEN "NoRoute"
         ELSE "Ok"
    ELSE "Ok"

\* the route check, which comes first: the later checks are looked at only when
\* the two points differ and are at most 2 apart
RouteCheck(source, target, distance, later) ==
    IF IsAbort(distance) THEN "Panic"
    ELSE IF source = target \/ distance.val > 2 THEN "NoRoute"
    ELSE later

\* the checks of the source, the target and the cell jumped over, each returning
\* with `?`: the first failure, or "Ok"
FirstFailure(s, t, m) == IF s # "Ok" THEN s ELSE IF t # "Ok" THEN t ELSE m

\* the checks of move_piece, in its order: "Ok" or the first failure
Validate(b, source, target, who, overflow_checks) ==
    RouteCheck(source, target, Distance(source, target, overflow_checks),
               FirstFailure(CheckSource(b, source, who, overflow_checks),
                            CheckTarget(b, target, overflow_checks),
                            CheckMiddle(b, source, target,
                                        Distance(source, target, overflow_checks).val,
                                        overflow_checks)))

\* a slip: the piece is pushed onto the end of the row, not written into the cell
SetCellPushing(b, pair, piece) ==
    [b EXCEPT !.rows[pair.row + 1] = Append(@, piece)]

SetCell(b, pair, piece) ==
    [b EXCEPT !.rows[pair.row + 1][pair.column + 1] = piece]

\* a slip: a jump also takes the piece it passes over off the board
PlaceCapturing(b, source, target, who, overflow_checks) ==
    LET source_indices == get_index_pair(b, source, overflow_checks)
        target_indices == get_index_pair(b, target, overflow_checks)
        middle_indices == get_index_pair(b, MiddlePoint(source, target), overflow_checks)
        distance == Distance(source, target, overflow_checks)
    IN  IF ~IsSome(source_indices) THEN Outcome(Missing(source_indices), b)
        ELSE IF ~IsSome(target_indices) THEN Outcome(Missing(target_indices), b)
        ELSE LET moved == SetCell(SetCell(b, source_indices.val, "Empty"),
                                  target_indices.val, who)
             IN  IF IsSome(distance) /\ distance.val = 2 /\ IsSome(middle_indices)
                 THEN Outcome("Ok", SetCell(moved, middle_indices.val, "Empty"))
                 ELSE Outcome("Ok", moved)

\* a slip: the target is written and the source is left as it was
PlaceCopying(b, source, target, who, overflow_checks) ==
    LET source_indices == get_index_pair(b, source, overflow_checks)
        target_indices == get_index_pair(b, target, overflow_checks)
    IN  IF ~IsSome(source_indices) THEN Outcome(Missing(source_indices), b)
        ELSE IF ~IsSome(target_indices) THEN Outcome(Missing(target_indices), b)
        ELSE Outcome("Ok", SetCell(b, target_indices.val, who))

\* the two writes of move_piece
Place(b, source, target, who, overflow_checks) ==
    LET source_indices == get_index_pair(b, source, overflow_checks)
        target_indices == get_index_pair(b, target, overflow_checks)
    IN  IF ~IsSome(source_indices) THEN Outcome(Missing(source_indices), b)
        ELSE IF ~IsSome(target_indices) THEN Outcome(Missing(target_indices), b)
        ELSE Outcome("Ok", SetCell(SetCell(b, source_indices.val, "Empty"),
                                   target_indices.val, who))

\* a slip: the cells are written before the checks are looked at
move_piece_writes_first(b, source, target, who, overflow_checks) ==
    LET checked == Validate(b, source, target, who, overflow_checks)
        placed == Place(b, source, target, who, overflow_checks)
    IN  IF checked # "Ok" THEN Outcome(checked, placed.board) ELSE placed

\* a failed check leaves the board alone; the writes come after the last check
CheckedThen(checked, b, placed) == IF checked # "Ok" THEN Outcome(checked, b) ELSE placed

move_piece(b, source, target, who, overflow_checks) ==
    CheckedThen(Validate(b, source, target, who, overflow_checks), b,
                Place(b, source, target, who, overflow_checks))

try_move_piece(b, source, target, who, overflow_checks) ==
    LET test_board == Clone(b) IN
    Outcome(move_piece(test_board, source, target, who, overflow_checks).result, b)

\* a slip: the loop stops one point early and leaves the last segment out
DistancesButLast(pts, overflow_checks) ==
    [i \in 1..(Len(pts) - 2) |-> Distance(pts[i + 1], pts[i], overflow_checks)]

\* the distances pushed by the first loop of take_turn
Distances(pts, overflow_checks) ==
    [i \in 1..(Len(pts) - 1) |-> Distance(pts[i + 1], pts[i], overflow_checks)]

\* one pass of the second loop of take_turn: self.move_piece(from, to, player)?
NextSegment(before, from, to, who, overflow_checks) ==
    IF before.result # "Ok" THEN before
    ELSE move_piece(before.board, from, to, who, overflow_checks)

\* a slip: a failing segment puts the board back as the turn found it
MoveSegmentsRolledBack(b, pts, who, overflow_checks) ==
    LET after[n \in 0..(Len(pts) - 1)] ==
            IF n = 0 THEN Outcome("Ok", b)
            ELSE IF after[n - 1].result # "Ok" THEN after[n - 1]
            ELSE LET moved == move_piece(after[n - 1].board, pts[n], pts[n + 1],
                                         who, overflow_checks)
                 IN  IF moved.result # "Ok" THEN Outcome(moved.result, b) ELSE moved
    IN  after[Len(pts) - 1]

\* the second loop of take_turn: the outcome of the first n segments, where a
\* failing segment ends the loop
MoveSegments(b, pts, who, overflow_checks) ==
    LET after[n \in 0..(Len(pts) - 1)] ==
            IF n = 0 THEN Outcome("Ok", b)
            ELSE NextSegment(after[n - 1], pts[n], pts[n + 1], who, overflow_checks)
    IN  after[Len(pts) - 1]

\* a slip: the distances of a turn of two points are checked too
take_turn_checks_pair(b, pts, who, overflow_checks) ==
    IF Len(pts) < 2 THEN Outcome("NoRoute", b)
    ELSE
        LET distances == Distances(pts, overflow_checks) IN
        IF \E i \in 1..Len(distances) : IsAbort(distances[i]) THEN Outcome("Panic", b)
        ELSE IF \E i \in 1..Len(distances) : distances[i].val # 2
        THEN Outcome("Exhausted", b)
        ELSE MoveSegments(b, pts, who, overflow_checks)

\* a slip: only an empty point list is turned away
take_turn_allows_single(b, pts, who, overflow_checks) ==
    IF Len(pts) < 1 THEN Outcome("NoRoute", b)
    ELSE
        LET distances == IF Len(pts) > 2 THEN Distances(pts, overflow_checks) ELSE <<>> IN
        IF \E i \in 1..Len(distances) : IsAbort(distances[i]) THEN Outcome("Panic", b)
        ELSE IF Len(distances) > 1 /\ \E i \in 1..Len(distances) : distances[i].val # 2
        THEN Outcome("Exhausted", b)
        ELSE MoveSegments(b, pts, who, overflow_checks)

take_turn(b, pts, who, overflow_checks) ==
    IF Len(pts) < 2 THEN Outcome("NoRoute", b)
    ELSE
        LET distances == IF Len(pts) > 2 THEN Distances(pts, overflow_checks) ELSE <<>> IN
        IF \E i \in 1..Len(distances) : IsAbort(distances[i]) THEN Outcome("Panic", b)
        ELSE IF Len(distances) > 1 /\ \E i \in 1..Len(distances) : distances[i].val # 2
        THEN Outcome("Exhausted", b)
        ELSE MoveSegments(b, pts, who, overflow_checks)

\* a slip: the turn is taken on the board itself
try_turn_in_place(b, pts, who, overflow_checks) == take_turn(b, pts, who, overflow_checks)

try_turn(b, pts, who, overflow_checks) ==
    LET test_board == Clone(b) IN
    Outcome(take_turn(test_board, pts, who, overflow_checks).result, b)

------------------------------------------------------------------------------
(* Win detection *)

Min(a, b) == IF a <= b THEN a ELSE b

\* a slip: LeftHand is scanned from the start of each row, like RightHand
WinScanFromStart(piece, pl) ==
    CASE piece = "Head" -> [reversed |-> FALSE, increasing |-> FALSE, start |-> pl * 3 + 1]
      [] piece = "LeftHand" -> [reversed |-> FALSE, increasing |-> TRUE, start |-> pl * 2 + 1]
      [] piece = "RightHand" -> [reversed |-> FALSE, increasing |-> TRUE, start |-> pl * 2 + 1]
      [] piece = "LeftFoot" -> [reversed |-> TRUE, increasing |-> FALSE, start |-> pl]
      [] piece = "RightFoot" -> [reversed |-> FALSE, increasing |-> FALSE, start |-> pl]
      [] piece = "Tail" -> [reversed |-> FALSE, increasing |-> TRUE, start |-> 0]

\* the match of has_player_won: which rows to scan, from which end, how far
WinScan(piece, pl) ==
    CASE piece = "Head" -> [reversed |-> FALSE, increasing |-> FALSE, start |-> pl * 3 + 1]
      [] piece = "LeftHand" -> [reversed |-> TRUE, increasing |-> TRUE, start |-> pl * 2 + 1]
      [] piece = "RightHand" -> [reversed |-> FALSE, increasing |-> TRUE, start |-> pl * 2 + 1]
      [] piece = "LeftFoot" -> [reversed |-> TRUE, increasing |-> FALSE, start |-> pl]
      [] piece = "RightFoot" -> [reversed |-> FALSE, increasing |-> FALSE, start |-> pl]
      [] piece = "Tail" -> [reversed |-> FALSE, increasing |-> TRUE, start |-> 0]

\* a slip: one cell fewer is taken from each row
RowPartShort(row, reversed, offset) ==
    LET taken == Min(offset - 1, Len(row)) IN
    IF reversed THEN [k \in 1..taken |-> row[Len(row) + 1 - k]]
    ELSE [k \in 1..taken |-> row[k]]

\* row.iter().take(offset) or row.iter().rev().take(offset): the cells looked at
RowPart(row, reversed, offset) ==
    LET taken == Min(offset, Len(row)) IN
    IF reversed THEN [k \in 1..taken |-> row[Len(row) + 1 - k]]
    ELSE [k \in 1..taken |-> row[k]]

\* Some(bool), or the abort of a slice that reaches past the last row
has_player_won(b, piece) ==
    LET pl == b.config.player_lines IN
    IF piece = "Empty" THEN Some(FALSE)
    ELSE
        LET scan == WinScan(piece, pl) IN
        IF scan.start + pl > Len(b.rows) THEN Abort
        ELSE Some(\A n \in 0..(pl - 1) :
                    LET row == b.rows[scan.start + n + 1]
                        offset == IF scan.increasing THEN n + 1 ELSE pl - n
                        row_part == RowPart(row, scan.reversed, offset)
                    IN  ~\E k \in 1..Len(row_part) : row_part[k] # piece)

------------------------------------------------------------------------------
(* Arguments the caller passes *)

\* the Points that address a cell of b
OnBoard(b) ==
    UNION {{Point(r, 3 * b.config.player_lines + 2 - Len(b.rows[r]) + 2 * (k - 1)) :
               k \in 1..Len(b.rows[r])} : r \in 1..Len(b.rows)}

\* Points off the board: above it, below it, beside the apex, left of the equator,
\* and with a negative row or column
OffBoard(pl) ==
    {Point(0, 3 * pl + 1), Point(4 * pl + 2, 3 * pl + 1), Point(1, 3 * pl),
     Point(2 * pl + 1, pl - 1), Point(-1, 3 * pl + 1), Point(2 * pl + 1, -1)}

Near(b) == OnBoard(b) \cup OffBoard(b.config.player_lines)

Step(p, d) == Point(p.row + d[1], p.column + d[2])

\* offsets to the source itself and to points between the cells next to it
Between == {<<0, 0>>, <<0, 1>>, <<1, 0>>, <<-2, 1>>}

\* pairs with a Point at an end of the i32 range
ExtremePairs(pl) ==
    {<<Point(MinI32, 3 * pl + 1), Point(1, 3 * pl + 1)>>,
     <<Point(MinI32, 3 * pl + 1), Point(0, 3 * pl + 1)>>,
     <<Point(MinI32, 3 * pl + 1), Point(MinI32, 3 * pl + 3)>>,
     <<Point(1, 3 * pl + 1), Point(MinI32, 3 * pl + 1)>>,
     <<Point(2 * pl + 1, MaxI32), Point(2 * pl + 1, -1)>>,
     <<Point(2 * pl + 1, MaxI32), Point(2 * pl + 1, MaxI32 - 2)>>}

\* the source and target of a move
Pairs(b) ==
    {<<s, t>> : s \in OnBoard(b), t \in Near(b)}
        \cup {<<s, t>> : s \in OffBoard(b.config.player_lines), t \in OnBoard(b)}
        \cup {<<s, Step(s, d)>> : s \in Near(b), d \in Between}
        \cup ExtremePairs(b.config.player_lines)

\* the piece on the point when there is one, or else Head
Owner(b, point) ==
    LET here == get_piece(b, point, FALSE) IN
    IF IsSome(here) THEN here.val ELSE "Head"

\* who moves: the owner of the source, another player, and Empty
Movers(b, source) == {Owner(b, source), "Head", "Empty"}

\* the six jumps
Jumps == {<<0, 4>>, <<0, -4>>, <<2, 2>>, <<2, -2>>, <<-2, 2>>, <<-2, -2>>}

\* the steps of a turn of two points: the jumps, an adjacent cell, a cell two rows
\* down, the point itself, a point three rows down
Steps == Jumps \cup {<<1, 1>>, <<2, 0>>, <<0, 0>>, <<3, 1>>}

\* the steps of a longer turn: jumps along a row and downwards, and an adjacent cell
ChainSteps == {<<0, 4>>, <<0, -4>>, <<2, 2>>, <<1, 1>>}

\* the last step of a longer turn may also stay in place or go three rows down
LastSteps == ChainSteps \cup {<<0, 0>>, <<3, 1>>}

\* the jumps of a turn of four points, which jumps there, back, and on
ThereAndBack == {<<0, 4>>, <<2, 2>>}

\* the point lists of a turn: none, one, two points, chains of two steps, and
\* chains of three jumps
Turns(b) ==
    {<<>>}
        \cup {<<s>> : s \in Near(b)}
        \cup {<<s, Step(s, d)>> : s \in Near(b), d \in Steps}
        \cup ExtremePairs(b.config.player_lines)
        \cup {<<s, Step(s, d), Step(Step(s, d), e)>> :
                 s \in OnBoard(b), d \in ChainSteps, e \in LastSteps}
        \cup {<<s, Step(s, d), s, Step(s, e)>> :
                 s \in OnBoard(b), d \in ThereAndBack, e \in ThereAndBack}

\* who takes the turn: the owner of the first point, and Empty
TurnMovers(b, pts) == IF pts = <<>> THEN {"Head", "Empty"} ELSE {Owner(b, pts[1]), "Empty"}

------------------------------------------------------------------------------
(* The caller's steps *)

Init ==
    /\ board \in {BoardNew(pl) : pl \in BoardSizes}
    /\ pc = "idle"
    /\ op = "none"
    /\ points = <<>>
    /\ player = "Empty"
    /\ result = "none"
    /\ pre = board.rows
    /\ calls = 0
    /\ game = None

\* a call returns: the method, its arguments, the board it found and what came of it
Return(name, pts, who, outcome) ==
    /\ pc' = "done"
    /\ op' = name
    /\ points' = pts
    /\ player' = who
    /\ result' = outcome.result
    /\ pre' = board.rows
    /\ board' = outcome.board
    /\ calls' = calls + 1
    /\ UNCHANGED game

MovePiece ==
    /\ pc = "idle" /\ calls < MaxCalls
    /\ \E pair \in Pairs(board), overflow_checks \in BOOLEAN :
         \E who \in Movers(board, pair[1]) :
            Return("move_piece", pair, who,
                   move_piece(board, pair[1], pair[2], who, overflow_checks))

TryMovePiece ==
    /\ pc = "idle" /\ calls < MaxCalls
    /\ \E pair \in Pairs(board), overflow_checks \in BOOLEAN :
         \E who \in Movers(board, pair[1]) :
            Return("try_move_piece", pair, who,
                   try_move_piece(board, pair[1], pair[2], who, overflow_checks))

TakeTurn ==
    /\ pc = "idle" /\ calls < MaxCalls
    /\ \E pts \in Turns(board), overflow_checks \in BOOLEAN :
         \E who \in TurnMovers(board, pts) :
            Return("take_turn", pts, who, take_turn(board, pts, who, overflow_checks))

TryTurn ==
    /\ pc = "idle" /\ calls < MaxCalls
    /\ \E pts \in Turns(board), overflow_checks \in BOOLEAN :
         \E who \in TurnMovers(board, pts) :
            Return("try_turn", pts, who, try_turn(board, pts, who, overflow_checks))

\* the caller drops the Result and goes on; after a panic there is no going on
Drop ==
    /\ pc = "done" /\ result # "Panic"
    /\ pc' = "idle"
    /\ op' = "none"
    /\ points' = <<>>
    /\ player' = "Empty"
    /\ result' = "none"
    /\ pre' = board.rows
    /\ UNCHANGED <<board, calls, game>>

Next == MovePiece \/ TryMovePiece \/ TakeTurn \/ TryTurn \/ Drop

Spec == Init /\ [][Next]_vars

\* the caller who makes the mutating calls only
NextMoves == MovePiece \/ TakeTurn \/ Drop

SpecMoves == Init /\ [][NextMoves]_vars

------------------------------------------------------------------------------
(* The read-only methods, each called once on a board of any size up to     *)
(* MaxLines: get_piece on a board as Board::new builds it or as a finished  *)
(* game leaves it, has_player_won on positions of a game near its end.     *)

\* largest board size (Config.player_lines)
MaxLines == 3

\* the player who starts across the board
Opposite(piece) ==
    CASE piece = "Head" -> "Tail"
      [] piece = "Tail" -> "Head"
      [] piece = "LeftHand" -> "RightFoot"
      [] piece = "RightFoot" -> "LeftHand"
      [] piece = "RightHand" -> "LeftFoot"
      [] piece = "LeftFoot" -> "RightHand"
      [] piece = "Empty" -> "Empty"

\* the board on which every player has crossed over
AllWon(pl) ==
    LET b == BoardNew(pl) IN
    [b EXCEPT !.rows = [i \in 1..Len(b.rows) |->
                          [j \in 1..Len(b.rows[i]) |-> Opposite(b.rows[i][j])]]]

\* the cells of a grid, as <<row, place in the row>>, counted from 1
Cells(b) == UNION {{<<i, j>> : j \in 1..Len(b.rows[i])} : i \in 1..Len(b.rows)}

\* two cells exchange what they hold
Swap(b, c, d) ==
    [b EXCEPT !.rows[c[1]][c[2]] = b.rows[d[1]][d[2]],
              !.rows[d[1]][d[2]] = b.rows[c[1]][c[2]]]

\* the positions has_player_won is asked about: the start, the end, and the end
\* with one cell exchanged with the apex or with the middle of the equator
Positions(pl) ==
    {BoardNew(pl), AllWon(pl)}
        \cup {Swap(AllWon(pl), c, d) :
                 c \in Cells(AllWon(pl)), d \in {<<1, 1>>, <<2 * pl + 1, pl + 1>>}}

\* the points get_piece is asked about: a frame around the padded space, and
\* points at the ends of the i32 range
Queries(pl) ==
    {Point(r, c) : r \in 0..(4 * pl + 2), c \in (-1)..(6 * pl + 3)}
        \cup {Point(-1, 3 * pl + 1), Point(MinI32, 3 * pl + 1), Point(MaxI32, 3 * pl + 1),
              Point(1, MinI32), Point(2 * pl + 1, MaxI32)}

\* a read-only call returns
Answer(name, pts, who, value) ==
    /\ pc' = "done"
    /\ op' = name
    /\ points' = pts
    /\ player' = who
    /\ result' = value
    /\ pre' = board.rows
    /\ calls' = calls + 1
    /\ UNCHANGED <<board, game>>

InitGet ==
    /\ \E pl \in 1..MaxLines :
          \/ board = BoardNew(pl) /\ op = "new"
          \/ board = AllWon(pl) /\ op = "literal"
    /\ pc = "idle"
    /\ points = <<>>
    /\ player = "Empty"
    /\ result = None
    /\ pre = board.rows
    /\ calls = 0
    /\ game = None

GetPiece ==
    /\ pc = "idle"
    /\ \E point \in Queries(board.config.player_lines), overflow_checks \in BOOLEAN :
          Answer("get_piece", <<point>>, "Empty", get_piece(board, point, overflow_checks))

NextGet == GetPiece

SpecGet == InitGet /\ [][NextGet]_vars

InitWon ==
    /\ \E pl \in 1..MaxLines : board \in Positions(pl)
    /\ pc = "idle"
    /\ op = "literal"
    /\ points = <<>>
    /\ player = "Empty"
    /\ result = None
    /\ pre = board.rows
    /\ calls = 0
    /\ game = None

HasPlayerWon ==
    /\ pc = "idle"
    /\ \E piece \in Piece :
          Answer("has_player_won", <<>>, piece, has_player_won(board, piece))

NextWon == HasPlayerWon

SpecWon == InitWon /\ [][NextWon]_vars

------------------------------------------------------------------------------
(* The caller of Spec, who now and then also asks whether a player has won *)

WonCall == calls < MaxCalls /\ HasPlayerWon

\* the caller drops the answer of has_player_won and goes on
DropAnswer ==
    /\ pc = "done" /\ op = "has_player_won" /\ ~IsAbort(result)
    /\ pc' = "idle"
    /\ op' = "none"
    /\ points' = <<>>
    /\ player' = "Empty"
    /\ result' = "none"
    /\ pre' = board.rows
    /\ UNCHANGED <<board, calls, game>>

DropResult == op # "has_player_won" /\ Drop

NextAny ==
    MovePiece \/ TryMovePiece \/ TakeTurn \/ TryTurn \/ WonCall \/ DropResult \/ DropAnswer

SpecAny == Init /\ [][NextAny]_vars

------------------------------------------------------------------------------
(* Board::serialize, called once on the positions of SpecWon.  A String is *)
(* the sequence of its characters.                                         *)

\* Config::default().symbols; the fields of Config are private, so every Config
\* a caller can build carries these
symbols ==
    [piece \in Piece |->
        CASE piece = "Head" -> "1"
          [] piece = "Tail" -> "2"
          [] piece = "LeftHand" -> "3"
          [] piece = "RightHand" -> "5"
          [] piece = "LeftFoot" -> "6"
          [] piece = "RightFoot" -> "4"
          [] piece = "Empty" -> "."]

\* a slip: the space is written after the symbol
FormatCellTrailing(piece) == <<symbols[piece], " ">>

\* format!(" {}", self.config.symbols[piece])
FormatCell(piece) == <<" ", symbols[piece]>>

\* row.iter().map(..).collect::<String>()
Collect(row) ==
    LET text[n \in 0..Len(row)] ==
            IF n = 0 THEN <<>> ELSE text[n - 1] \o FormatCell(row[n])
    IN  text[Len(row)]

\* a slip: the padding is counted from the width of the board, 6 * player_lines + 1
PaddingWide(pl, row, overflow_checks) ==
    UsizeSub(AsUsize(pl) * 6 + 1, Len(row), overflow_checks)

\* player_lines as usize * 3 + 1 - row.len()
Padding(pl, row, overflow_checks) ==
    UsizeSub(AsUsize(pl) * 3 + 1, Len(row), overflow_checks)

\* one line; a count that wrapped is beyond what String::repeat can allocate
SerializeRow(row, count) ==
    IF IsAbort(count) \/ count.val >= MaxI32 THEN Abort
    ELSE Some(Repeat(" ", count.val) \o Collect(row))

\* Some(lines), or the abort of a row longer than 3 * player_lines + 1
serialize(b, overflow_checks) ==
    LET line(i) == SerializeRow(b.rows[i],
                                Padding(b.config.player_lines, b.rows[i], overflow_checks))
    IN  IF \E i \in 1..Len(b.rows) : IsAbort(line(i)) THEN Abort
        ELSE Some([i \in 1..Len(b.rows) |-> line(i).val])

Serialize ==
    /\ pc = "idle"
    /\ \E overflow_checks \in BOOLEAN :
          Answer("serialize", <<>>, "Empty", serialize(board, overflow_checks))

NextText == Serialize

SpecText == InitWon /\ [][NextText]_vars

------------------------------------------------------------------------------
(* Game::play on the default board, for every list of players of up to     *)
(* MaxPlayers pieces.  game holds the locals of play and the place play    *)
(* has reached: "while" and "for" at the heads of the two loops, "draw"    *)
(* and "won" after take_turn, "break" behind the loops, "over" after the   *)
(* return of Ok and "failed" after the return of an error or an abort.     *)

\* Config::default().player_lines
DefaultLines == 4

\* largest number of players a Game is built with
MaxPlayers == 2

\* the turns play holds, which are the turns of main
turns ==
    << <<Point(4, 10), Point(5, 11)>>,
       <<Point(14, 16), Point(13, 15)>>,
       <<Point(3, 11), Point(5, 13), Point(5, 9)>> >>

\* a slip: the turn is looked up by the count of rounds
TurnOfRound(g) == turns[g.total_rounds + 1]

\* turns.clone()[total_turns].clone()
TurnOf(g) == turns[g.total_turns + 1]

\* playing.retain(|x| x != &piece)
Retain(playing, piece) == SelectSeq(playing, LAMBDA x : x # piece)

\* Game::new(board, pieces), and the locals as play sets them up
GameNew(pieces) ==
    [pieces |-> pieces, playing |-> pieces, victorious |-> <<>>,
     total_rounds |-> 0, total_turns |-> 0, round |-> <<>>, at |-> 0, step |-> "while"]

PieceLists == UNION {[1..n -> Piece] : n \in 0..MaxPlayers}

InitPlay ==
    /\ board = BoardNew(DefaultLines)
    /\ pc = "idle"
    /\ op = "new"
    /\ points = <<>>
    /\ player = "Empty"
    /\ result = "none"
    /\ pre = board.rows
    /\ calls = 0
    /\ \E pieces \in PieceLists : game = GameNew(pieces)

\* play moves on; the board and the last call stay as they are
Goes(g) ==
    /\ game' = g
    /\ UNCHANGED <<board, pc, op, points, player, result, pre, calls>>

\* play aborts
Aborted ==
    /\ game' = [game EXCEPT !.step = "failed"]
    /\ result' = "Panic"
    /\ UNCHANGED <<board, pc, op, points, player, pre, calls>>

\* while playing.len() > 1 { for piece in playing.clone() {
EnterRound ==
    /\ game.step = "while" /\ Len(game.playing) > 1
    /\ Goes([game EXCEPT !.round = game.playing, !.at = 1, !.step = "for"])

LoopEnds ==
    /\ game.step = "while" /\ Len(game.playing) <= 1
    /\ Goes([game EXCEPT !.step = "break"])

\* the for loop has run through the players: total_rounds += 1
EndRound ==
    /\ game.step = "for" /\ game.at > Len(game.round)
    /\ Goes([game EXCEPT !.total_rounds = @ + 1, !.step = "while"])

\* if total_turns >= turns.len() { break 'outer; }
Break ==
    /\ game.step = "for" /\ game.at <= Len(game.round)
    /\ game.total_turns >= Len(turns)
    /\ Goes([game EXCEPT !.step = "break"])

\* self.board.take_turn(turn, piece)?
TurnTaken(turn, piece, outcome) ==
    /\ pc' = "done"
    /\ op' = "take_turn"
    /\ points' = turn
    /\ player' = piece
    /\ result' = outcome.result
    /\ pre' = board.rows
    /\ board' = outcome.board
    /\ calls' = calls + 1
    /\ game' = [game EXCEPT !.step = IF outcome.result = "Ok" THEN "draw" ELSE "failed"]

\* the for loop holds a player and a scripted turn is left
TurnAtHand ==
    /\ game.step = "for" /\ game.at <= Len(game.round)
    /\ game.total_turns < Len(turns)

PlayTurn ==
    /\ TurnAtHand
    /\ \E overflow_checks \in BOOLEAN :
          TurnTaken(TurnOf(game), game.round[game.at],
                    take_turn(board, TurnOf(game), game.round[game.at], overflow_checks))

\* self.board.draw()
Drawn(text) ==
    IF IsAbort(text) THEN Aborted ELSE Goes([game EXCEPT !.step = "won"])

Draw ==
    /\ game.step = "draw"
    /\ \E overflow_checks \in BOOLEAN : Drawn(serialize(board, overflow_checks))

\* the player has finished: retain, push, and break when fewer than two are left
Finished(g, piece) ==
    IF Len(Retain(g.playing, piece)) < 2
    THEN [g EXCEPT !.playing = Retain(@, piece), !.victorious = Append(@, piece),
                   !.step = "break"]
    ELSE [g EXCEPT !.playing = Retain(@, piece), !.victorious = Append(@, piece),
                   !.total_turns = @ + 1, !.at = @ + 1, !.step = "for"]

\* total_turns += 1, and on to the next player
Continues(g) == [g EXCEPT !.total_turns = @ + 1, !.at = @ + 1, !.step = "for"]

\* if self.board.has_player_won(piece) { .. }
Asked(won, piece) ==
    IF IsAbort(won) THEN Aborted
    ELSE IF won.val THEN Goes(Finished(game, piece))
    ELSE Goes(Continues(game))

CheckWon ==
    /\ game.step = "won"
    /\ Asked(has_player_won(board, game.round[game.at]), game.round[game.at])

\* Ok(())
GameOver ==
    /\ game.step = "break"
    /\ game' = [game EXCEPT !.step = "over"]
    /\ pc' = "done"
    /\ op' = "play"
    /\ points' = <<>>
    /\ player' = "Empty"
    /\ result' = "Ok"
    /\ pre' = board.rows
    /\ UNCHANGED <<board, calls>>

NextPlay ==
    EnterRound \/ LoopEnds \/ EndRound \/ Break \/ PlayTurn \/ Draw \/ CheckWon \/ GameOver

SpecPlay == InitPlay /\ [][NextPlay]_vars

------------------------------------------------------------------------------
(* Game::play on any board and with any list of up to MaxSeats players.    *)
(* play is sequential code: while a step is left to take, it is taken.     *)

\* largest number of players in the list
MaxSeats == 4

\* the default board at the end of a game, with one more piece on (4,10)
Stray(piece) == [AllWon(DefaultLines) EXCEPT !.rows[4][1] = piece]

\* the boards a Game is built with: fresh boards of every size, the default
\* board at the end of a game, and that board with a stray piece
GameBoards ==
    {BoardNew(pl) : pl \in 1..MaxLines}
        \cup {BoardNew(DefaultLines), AllWon(DefaultLines)}
        \cup {Stray(piece) : piece \in Players}

SeatLists == UNION {[1..n -> Piece] : n \in 0..MaxSeats}

InitGame ==
    /\ board \in GameBoards
    /\ pc = "idle"
    /\ op = "literal"
    /\ points = <<>>
    /\ player = "Empty"
    /\ result = "none"
    /\ pre = board.rows
    /\ calls = 0
    /\ \E pieces \in SeatLists : game = GameNew(pieces)

SpecGame == InitGame /\ [][NextPlay]_vars /\ WF_vars(NextPlay)

------------------------------------------------------------------------------
(* What the properties speak of.  The layout of the board is stated here   *)
(* on its own, not through the coordinate mapper: row r of a board of size *)
(* N holds Len(row) cells at the columns 3N + 2 - Len(row) + 2k.           *)

Returned(name) == pc = "done" /\ op = name

\* the board the last call was made on
PreBoard == [rows |-> pre, config |-> board.config]

source == points[1]

target == points[2]

FirstColumn(r) == 3 * board.config.player_lines + 2 - Len(pre[r])

\* p addresses a cell of the board
IsCell(p) ==
    /\ p.row \in 1..Len(pre)
    /\ \E k \in 1..Len(pre[p.row]) : p.column = FirstColumn(p.row) + 2 * (k - 1)

\* the place of that cell in the grid
CellOf(p) == <<p.row, ((p.column - FirstColumn(p.row)) \div 2) + 1>>

\* the piece a grid holds there
At(grid, p) == grid[CellOf(p)[1]][CellOf(p)[2]]

SameShape ==
    /\ Len(board.rows) = Len(pre)
    /\ \A i \in 1..Len(pre) : Len(board.rows[i]) = Len(pre[i])

\* the cells the last call changed
Changed ==
    {c \in UNION {{<<i, j>> : j \in 1..Len(pre[i])} : i \in 1..Len(pre)} :
        board.rows[c[1]][c[2]] # pre[c[1]][c[2]]}

\* |a - b| > n, for any two i32 values
MoreThan(a, b, n) ==
    IF a >= b THEN b <= MaxI32 - n /\ a > b + n
    ELSE a <= MaxI32 - n /\ b > a + n

\* |a - b| = n, for any two i32 values
Apart(a, b, n) == ~MoreThan(a, b, n) /\ (n = 0 \/ MoreThan(a, b, n - 1))

\* the distance of the two points exceeds 2
Far(s, t) ==
    IF s.row = t.row THEN MoreThan(s.column, t.column, 5) ELSE MoreThan(s.row, t.row, 2)

\* the distance of the two points is 1
DistanceOne(s, t) ==
    IF s.row = t.row THEN MoreThan(s.column, t.column, 1) /\ ~MoreThan(s.column, t.column, 3)
    ELSE Apart(s.row, t.row, 1)

\* the differences the distance is computed from fit an i32, sign dropped
DistanceComputed(s, t) ==
    /\ ~MoreThan(s.row, t.row, MaxI32)
    /\ s.row = t.row => ~MoreThan(s.column, t.column, MaxI32)

\* next to each other in the hex grid
Adjacent(s, t) ==
    \/ s.row = t.row /\ Apart(s.column, t.column, 2)
    \/ Apart(s.row, t.row, 1) /\ Apart(s.column, t.column, 1)

\* two steps apart along one of the six directions
TwoSteps(s, t) ==
    \/ s.row = t.row /\ Apart(s.column, t.column, 4)
    \/ Apart(s.row, t.row, 2) /\ Apart(s.column, t.column, 2)

\* the point midway between two points two steps apart
Midway(s, t) == Point((s.row + t.row) \div 2, (s.column + t.column) \div 2)

\* a move_piece call that passed the route check with both points on the board
MoveOnBoard ==
    /\ Returned("move_piece")
    /\ source # target /\ ~Far(source, target)
    /\ IsCell(source) /\ IsCell(target)

------------------------------------------------------------------------------
(* Properties *)

\* C1: when move_piece returns Ok, the board differs from the board before the
\* call in exactly two cells: the source cell, now Empty, and the target cell,
\* now holding the player; every other cell is as it was.
C1_MoveChangesTwoCells ==
    Returned("move_piece") /\ result = "Ok" =>
        /\ SameShape /\ IsCell(source) /\ IsCell(target)
        /\ Changed = {CellOf(source), CellOf(target)}
        /\ CellOf(source) # CellOf(target)
        /\ At(board.rows, source) = "Empty"
        /\ At(board.rows, target) = player

\* C2: when move_piece returns an error, the board is the board before the call.
C2_MoveErrorLeavesBoard ==
    Returned("move_piece") /\ result \in GameError => board = PreBoard

\* C2 witness: a move that fails at the last check, the piece jumped over
C2_Witness ==
    /\ MoveOnBoard /\ result = "NoRoute"
    /\ player # "Empty" /\ At(pre, source) = player /\ At(pre, target) = "Empty"

\* C3: try_move_piece and try_turn leave the board as it was before the call,
\* whatever they return.
C3_TryLeavesBoard ==
    Returned("try_move_piece") \/ Returned("try_turn") => board = PreBoard

\* C3 witness: a try_turn of two jumps whose first jump is made on the copy and
\* whose second jump fails
C3_Witness ==
    /\ Returned("try_turn") /\ Len(points) = 3
    /\ player # "Empty"
    /\ result \in GameError \ {"Exhausted"}
    /\ move_piece(PreBoard, points[1], points[2], player, FALSE).result = "Ok"

\* C4: try_move_piece returns what move_piece returns on the same board with the
\* same arguments, and try_turn returns what take_turn returns.
C4_TryReturnsSame ==
    /\ Returned("try_move_piece") =>
          \E overflow_checks \in BOOLEAN :
              result = move_piece(PreBoard, source, target, player, overflow_checks).result
    /\ Returned("try_turn") =>
          \E overflow_checks \in BOOLEAN :
              result = take_turn(PreBoard, points, player, overflow_checks).result

\* C4 witness: a try_move_piece that returns Ok on a board a piece has moved on
C4_Witness ==
    /\ Returned("try_move_piece") /\ result = "Ok"
    /\ player # "Empty"
    /\ pre # BoardNew(board.config.player_lines).rows

\* C5: for two points two steps apart along one of the six directions, both on
\* the board, the source holding the player's piece and the target Empty,
\* move_piece succeeds exactly when the cell midway between them is not Empty.
C5_JumpNeedsMidwayPiece ==
    /\ MoveOnBoard /\ TwoSteps(source, target)
    /\ player # "Empty" /\ At(pre, source) = player /\ At(pre, target) = "Empty"
    => (result = "Ok" <=> (IsCell(Midway(source, target))
                            /\ At(pre, Midway(source, target)) # "Empty"))

\* C6: every successful move_piece of distance 1 ends on a cell adjacent to the
\* source: in the same row two columns away, or in a neighbouring row one
\* column away.
C6_StepIsAdjacent ==
    Returned("move_piece") /\ result = "Ok" /\ DistanceOne(source, target)
        => Adjacent(source, target)

\* C7: move_piece returns NoRoute whenever source equals target or the computed
\* distance exceeds 2, whatever else is wrong with the move: a point off the
\* board, another player's piece on the source, an occupied target.  A distance
\* is computed when the coordinate differences fit an i32.
C7_NoRouteFirst ==
    /\ Returned("move_piece")
    /\ source = target \/ (Far(source, target) /\ DistanceComputed(source, target))
    => result = "NoRoute"

\* C7 witness: a move that is too far, from a cell of another player's piece to
\* a point off the board
C7_Witness ==
    /\ Returned("move_piece") /\ result = "NoRoute"
    /\ Far(source, target)
    /\ IsCell(source) /\ At(pre, source) # player /\ ~IsCell(target)

\* C8: for distinct points of distance at most 2, move_piece returns OutOfBounds
\* whenever the source or the target is no cell of the board, also when the
\* source holds another player's piece.
C8_OutOfBoundsBeforeOwner ==
    /\ Returned("move_piece")
    /\ source # target /\ ~Far(source, target)
    /\ ~IsCell(source) \/ ~IsCell(target)
    => result = "OutOfBounds"

\* C9: for distinct points of distance at most 2, both on the board, move_piece
\* returns WrongPlayer whenever the source cell does not hold the player.
C9_WrongPlayer ==
    MoveOnBoard /\ At(pre, source) # player => result = "WrongPlayer"

\* C9 witness: another player's piece asked to jump onto an occupied cell
C9_Witness ==
    /\ MoveOnBoard /\ result = "WrongPlayer"
    /\ At(pre, source) # "Empty" /\ At(pre, target) # "Empty"

\* C10: for distinct points of distance at most 2, both on the board, the source
\* holding the player, move_piece returns OccupiedTarget whenever the target
\* cell is not Empty, whatever the cell a jump passes over holds.
C10_OccupiedTarget ==
    MoveOnBoard /\ At(pre, source) = player /\ At(pre, target) # "Empty"
        => result = "OccupiedTarget"

\* C10 witness: a jump onto an occupied cell over an Empty cell
C10_Witness ==
    /\ MoveOnBoard /\ result = "OccupiedTarget"
    /\ Apart(source.row, target.row, 2)
    /\ IsCell(MiddlePoint(source, target))
    /\ At(pre, MiddlePoint(source, target)) = "Empty"

\* the distance of the two points is 2
DistanceTwo(s, t) ==
    IF s.row = t.row THEN MoreThan(s.column, t.column, 3) /\ ~MoreThan(s.column, t.column, 5)
    ELSE Apart(s.row, t.row, 2)

\* a move_piece call of distance 2 that passed the checks of both end points
JumpChecked ==
    /\ MoveOnBoard /\ DistanceTwo(source, target)
    /\ player # "Empty" /\ At(pre, source) = player /\ At(pre, target) = "Empty"

\* the point whose cell a jump is required to find a piece on
Checked(s, t) == Point(Max(s.row, t.row) - 1, Max(s.column, t.column) - 1)

\* C11: for a move of distance 2 with both end points on the board, the source
\* holding the player's piece and the target Empty, move_piece returns NoRoute
\* when the checked cell, (max row - 1, max column - 1), is Empty and also when
\* there is no such cell on the board.
C11_NoMiddleNoRoute ==
    /\ JumpChecked
    /\ ~IsCell(Checked(source, target)) \/ At(pre, Checked(source, target)) = "Empty"
    => result = "NoRoute"

\* a take_turn call with three or more points
LongTurn == Returned("take_turn") /\ Len(points) >= 3

\* the segments of the last call's point list
Segments == 1..(Len(points) - 1)

\* the distance of every segment is computed: the differences fit an i32
AllComputed == \A i \in Segments : DistanceComputed(points[i], points[i + 1])

\* C12: take_turn with three or more points returns Exhausted whenever some
\* segment has a computed distance other than 2, be it 0, 1 or more than 2 and
\* be its points on the board or not, and then no segment is applied: the board
\* is the board before the call.  So a successful turn of three or more points
\* is made of jumps of distance 2 only.
C12_Exhausted ==
    LongTurn /\ AllComputed =>
        /\ (\E i \in Segments : ~DistanceTwo(points[i], points[i + 1]))
              => result = "Exhausted" /\ board = PreBoard
        /\ result = "Ok" => \A i \in Segments : DistanceTwo(points[i], points[i + 1])

\* C12 witness: a turn that is Exhausted by its second segment although its
\* first segment is a jump the player can make
C12_Witness ==
    /\ LongTurn /\ result = "Exhausted"
    /\ player # "Empty"
    /\ DistanceTwo(points[1], points[2])
    /\ move_piece(PreBoard, points[1], points[2], player, FALSE).result = "Ok"

\* the board after move_piece has been called for the first n segments in order
AfterSegments(n) ==
    LET b[i \in 0..n] ==
            IF i = 0 THEN PreBoard
            ELSE move_piece(b[i - 1], points[i], points[i + 1], player, FALSE).board
    IN  b[n]

\* what move_piece returns for segment n, called after the segments before it
SegmentResult(n) ==
    move_piece(AfterSegments(n - 1), points[n], points[n + 1], player, FALSE).result

\* segment k is the first segment whose move_piece fails
FirstFailing(k) ==
    /\ k \in Segments
    /\ SegmentResult(k) \in GameError
    /\ \A j \in 1..(k - 1) : SegmentResult(j) = "Ok"

\* a take_turn call with three or more points, all segments of distance 2, that
\* returned
JumpTurn ==
    /\ LongTurn /\ AllComputed /\ result # "Panic"
    /\ \A i \in Segments : DistanceTwo(points[i], points[i + 1])

\* C13: when take_turn is called with three or more points, all segments of
\* distance 2, and segment k is the first segment whose move_piece fails, then
\* take_turn returns the error of segment k and the board is the board before
\* the call with the segments 1..k-1 applied in order: no later segment is
\* applied, nothing is rolled back, and for k > 1 the moving piece rests on the
\* first point of segment k.
C13_FailingSegment ==
    \A k \in 1..Len(points) :
        JumpTurn /\ FirstFailing(k) =>
            /\ result = SegmentResult(k)
            /\ board = AfterSegments(k - 1)
            /\ k > 1 => IsCell(points[k]) /\ At(board.rows, points[k]) = player

\* C13 witness: a turn of two jumps whose first jump is made and whose second
\* jump fails, leaving the piece on the second point
C13_Witness ==
    /\ JumpTurn /\ FirstFailing(2)
    /\ player # "Empty"
    /\ result \in GameError
    /\ At(pre, points[1]) = player /\ At(board.rows, points[2]) = player
    /\ board # PreBoard

\* C14: take_turn with exactly two points returns what move_piece returns for
\* the two points and the player on the same board and leaves the board that
\* move_piece leaves; it never returns Exhausted, whatever the distance of the
\* two points.
C14_PairTurnIsMove ==
    Returned("take_turn") /\ Len(points) = 2 =>
        /\ result # "Exhausted"
        /\ \E overflow_checks \in BOOLEAN :
              LET moved == move_piece(PreBoard, source, target, player, overflow_checks)
              IN  result = moved.result /\ board = moved.board

\* C14 witness: a turn of two points of distance 1 that moves the piece
C14_Witness ==
    /\ Returned("take_turn") /\ Len(points) = 2
    /\ DistanceOne(source, target)
    /\ player # "Empty" /\ result = "Ok"
    /\ At(pre, source) = player /\ At(board.rows, target) = player

\* C15: take_turn with no point or one point returns NoRoute and leaves the
\* board as it was, whoever the player and whatever the board.
C15_ShortTurn ==
    Returned("take_turn") /\ Len(points) < 2 => result = "NoRoute" /\ board = PreBoard

\* C15 witness: a turn of one point, the cell of the player's own piece, on a
\* board a piece has moved on
C15_Witness ==
    /\ Returned("take_turn") /\ Len(points) = 1
    /\ result = "NoRoute"
    /\ IsCell(points[1]) /\ player # "Empty" /\ At(pre, points[1]) = player
    /\ pre # BoardNew(board.config.player_lines).rows

\* C16: after a successful move_piece from source to target, the move_piece
\* that follows it at once, from target to source with the same player, succeeds
\* too and puts the board back as it was before the first move, for moves of
\* distance 1 and for jumps of distance 2.
C16_RoundTrip ==
    Returned("move_piece") /\ result = "Ok" =>
        \A overflow_checks \in BOOLEAN :
            LET back == move_piece(board, target, source, player, overflow_checks)
            IN  back.result = "Ok" /\ back.board = PreBoard

\* C16 witness: a jump of distance 2 that has moved the player's piece
C16_Witness ==
    /\ JumpChecked /\ result = "Ok"
    /\ At(board.rows, target) = player /\ At(board.rows, source) = "Empty"

------------------------------------------------------------------------------
(* Properties of the read-only methods *)

\* the size of the board
N == board.config.player_lines

\* the cells in which a player starts: the player's home triangle
Home(piece) == {c \in Cells(BoardNew(N)) : BoardNew(N).rows[c[1]][c[2]] = piece}

\* the player whose home triangle a player has to fill
Across(piece) ==
    CASE piece \in {"Head", "Tail"} -> CHOOSE q \in {"Head", "Tail"} : q # piece
      [] piece \in {"LeftHand", "RightFoot"} -> CHOOSE q \in {"LeftHand", "RightFoot"} : q # piece
      [] piece \in {"RightHand", "LeftFoot"} -> CHOOSE q \in {"RightHand", "LeftFoot"} : q # piece

\* the player's pieces fill the home triangle across the board
Filled(piece) == \A c \in Home(Across(piece)) : board.rows[c[1]][c[2]] = piece

\* C17: has_player_won(Empty) is false, and for each of the six players
\* has_player_won(p) is true exactly when every one of the N(N+1)/2 cells of the
\* home triangle in which the opposite player starts holds p; the cells
\* outside that triangle do not matter.
C17_WonIffTriangleFilled ==
    Returned("has_player_won") =>
        /\ player = "Empty" => result = Some(FALSE)
        /\ player # "Empty" =>
              /\ Cardinality(Home(Across(player))) * 2 = N * (N + 1)
              /\ result = Some(Filled(player))

\* C17 witness: a player has won although a piece outside the triangle the
\* player fills is out of place
C17_Witness ==
    /\ Returned("has_player_won") /\ N >= 2
    /\ player # "Empty" /\ result = Some(TRUE)
    /\ board # AllWon(N)

\* a board as Board::new has built it, not yet asked anything
Built == pc = "idle" /\ op = "new"

\* the length the layout gives row r of a board of size n
RowLength(n, r) ==
    IF r <= n THEN r
    ELSE IF r <= 2 * n THEN 3 * n + 2 - (r - n)
    ELSE IF r = 2 * n + 1 THEN 2 * n + 1
    ELSE IF r <= 3 * n + 1 THEN 3 * n + 2 - (3 * n + 2 - r)
    ELSE 4 * n + 2 - r

\* a band row of size n whose side triangles are k cells wide: the piece at
\* place j, with `left` and `right` the two players of the band
BandCell(n, k, j, left, right) ==
    IF j <= k THEN left
    ELSE IF j <= k + (2 * n + 1 - k) THEN "Empty"
    ELSE right

\* the piece the layout puts on place j of row r of a board of size n
Layout(n, r, j) ==
    IF r <= n THEN "Head"
    ELSE IF r <= 2 * n THEN BandCell(n, n + 1 - (r - n), j, "LeftHand", "RightHand")
    ELSE IF r = 2 * n + 1 THEN "Empty"
    ELSE IF r <= 3 * n + 1 THEN BandCell(n, r - (2 * n + 1), j, "LeftFoot", "RightFoot")
    ELSE "Tail"

\* the row lengths read the same from the top and from the bottom
Mirrored == \A r \in 1..Len(board.rows) :
                Len(board.rows[r]) = Len(board.rows[Len(board.rows) + 1 - r])

\* C18: for every N >= 1 Board::new(N) yields exactly 4N+1 rows of the lengths
\* 1..N, then 3N+2-n for n = 1..N, then 2N+1, then 3N+2-n for n = N..1, then
\* N..1, a sequence that mirrors top to bottom, filled as: the Head triangle;
\* rows of N+1-n LeftHand, N+n Empty, N+1-n RightHand; an all-Empty equator;
\* the mirrored band of LeftFoot, Empty and RightFoot; the Tail triangle.
C18_NewBoardLayout ==
    Built =>
        /\ Len(board.rows) = 4 * N + 1
        /\ \A r \in 1..Len(board.rows) :
              /\ Len(board.rows[r]) = RowLength(N, r)
              /\ \A j \in 1..Len(board.rows[r]) : board.rows[r][j] = Layout(N, r, j)
        /\ Mirrored

\* C18 witness: a new board of size 3 or more, whose bands have rows with side
\* triangles of three widths
C18_Witness ==
    /\ Built /\ N >= 3
    /\ board.rows[N + 1][N] = "LeftHand" /\ board.rows[N + 1][N + 1] = "Empty"
    /\ board.rows[3 * N + 1][2 * N + 2] = "RightFoot"

\* the length of the longest row
Widest == CHOOSE w \in {Len(board.rows[r]) : r \in 1..Len(board.rows)} :
              \A r \in 1..Len(board.rows) : Len(board.rows[r]) <= w

\* C19, as stated: in the grid built by Board::new(N) the row widths mirror top
\* to bottom and the widest rows have length 2N+1.
C19_WidestIsEquator ==
    Built => Mirrored /\ Widest = 2 * N + 1

\* C19, amended: in the grid built by Board::new(N) the row widths mirror top to
\* bottom; the widest rows have length 3N+1 and are the two rows next to the
\* Head and Tail triangles, rows N+1 and 3N+1; the equator, row 2N+1, has
\* length 2N+1 and is the narrowest row between them.
C19_WidestIsBandEdge ==
    Built =>
        /\ Mirrored
        /\ Widest = 3 * N + 1
        /\ {r \in 1..Len(board.rows) : Len(board.rows[r]) = Widest} = {N + 1, 3 * N + 1}
        /\ Len(board.rows[2 * N + 1]) = 2 * N + 1
        /\ \A r \in (N + 1)..(3 * N + 1) : Len(board.rows[r]) >= 2 * N + 1

\* C19 witness: a new board of size 2 or more, where the widest rows and the
\* equator are apart
C19_Witness ==
    /\ Built /\ N >= 2
    /\ Len(board.rows[N + 1]) > Len(board.rows[N + 2])
    /\ Len(board.rows[N + 2]) > Len(board.rows[2 * N + 1])

\* the point the last call asked about
asked == points[1]

\* the points that get the same index pair as the point asked about
SameCell ==
    {q \in Queries(N) :
        get_index_pair(board, q, FALSE) = get_index_pair(board, asked, FALSE)}

\* the points that are mapped to the cell c of the grid
PointsOf(c) ==
    {q \in Queries(N) :
        get_index_pair(board, q, FALSE) = Some(IndexPair(c[1] - 1, c[2] - 1))}

\* C20: on a board of size N, for a Point (r, c) with 1 <= r <= 4N+1 and L the
\* length of grid row r, get_piece returns Some(rows[r-1][k]) when
\* c = 3N+2-L+2k for some 0 <= k < L, and None for every other column: a column
\* of the wrong parity, beside the row, zero or negative.  Distinct valid
\* points address distinct cells, and every cell of the grid is addressed by
\* exactly one point.
C20_GetPieceColumns ==
    /\ Returned("get_piece") /\ asked.row \in 1..(4 * N + 1) =>
          LET L == Len(pre[asked.row])
              places == {k \in 0..(L - 1) : asked.column = 3 * N + 2 - L + 2 * k}
          IN  /\ places = {} => result = None
              /\ \A k \in places :
                    /\ result = Some(pre[asked.row][k + 1])
                    /\ SameCell = {asked}
    /\ pc = "idle" => \A c \in Cells(board) : Cardinality(PointsOf(c)) = 1

\* C20 witness: the last cell of the widest row, found at the last column of the
\* padded space
C20_Witness ==
    /\ Returned("get_piece") /\ N >= 2
    /\ asked.row = N + 1 /\ asked.column = 6 * N + 1
    /\ result = Some(pre[N + 1][3 * N + 1])
    /\ pre[N + 1][3 * N + 1] # "Empty"

\* the row of p is no row of the grid
RowOutside(p) == p.row < 1 \/ p.row > 4 * N + 1

\* C21: for every Point whose row is outside 1..4N+1, be it row 0, a negative
\* row or a row above 4N+1, get_piece returns None as an ordinary result, and
\* move_piece with such a source or target at a distance of at most 2 returns
\* OutOfBounds: the step from the row to the index, row - 1 on an unsigned
\* value, never aborts and never wraps to a row of the grid.
C21_RowOutsideIsNone ==
    /\ Returned("get_piece") /\ RowOutside(asked) => result = None
    /\ /\ Returned("move_piece")
       /\ source # target /\ ~Far(source, target)
       /\ RowOutside(source) \/ RowOutside(target)
       => result = "OutOfBounds"

\* C22: in every state reachable from Board::new(N) by any sequence of
\* move_piece, take_turn, try_move_piece, try_turn and has_player_won calls,
\* successful or failing, the grid has as many rows as at construction and
\* every row has the length it had then; only what the cells hold changes.
C22_ShapeNeverChanges ==
    LET built == BoardNew(N).rows IN
    /\ Len(board.rows) = Len(built)
    /\ \A i \in 1..Len(built) :
          i <= Len(board.rows) => Len(board.rows[i]) = Len(built[i])

\* has_player_won has answered on a board an earlier call has changed
C22_Witness ==
    /\ Returned("has_player_won")
    /\ board.rows # BoardNew(N).rows

\* the lines serialize returned
lines == result.val

\* C23: serialize() returns one line per grid row, in row order (4N+1 lines);
\* the line for a row of length L is 3N+1-L spaces followed, for each cell in
\* order, by one space and that cell's one-character symbol, so its length is
\* 3N+1+L; for N=1 with the default symbols the result is exactly
\* ["    1", " 3 . . 5", "  . . .", " 6 . . 4", "    2"].
C23_SerializeFormat ==
    Returned("serialize") =>
        /\ IsSome(result)
        /\ Len(lines) = Len(board.rows)
        /\ Len(lines) = 4 * N + 1
        /\ \A r \in 1..Len(board.rows) :
              LET L == Len(board.rows[r]) IN
              /\ Len(lines[r]) = 3 * N + 1 + L
              /\ \A k \in 1..(3 * N + 1 - L) : lines[r][k] = " "
              /\ \A j \in 1..L :
                    /\ lines[r][3 * N + 1 - L + 2 * j - 1] = " "
                    /\ lines[r][3 * N + 1 - L + 2 * j] = symbols[board.rows[r][j]]
        /\ board = BoardNew(1) =>
              lines = << <<" ", " ", " ", " ", "1">>,
                         <<" ", "3", " ", ".", " ", ".", " ", "5">>,
                         <<" ", " ", ".", " ", ".", " ", ".">>,
                         <<" ", "6", " ", ".", " ", ".", " ", "4">>,
                         <<" ", " ", " ", " ", "2">> >>

\* the fresh board of size 1 has been serialized
C23_Witness ==
    /\ Returned("serialize")
    /\ board = BoardNew(1)
    /\ IsSome(result)
    /\ Len(lines) = 5

\* get_piece accepts the Public Point (r, c), in some build
Accepted(r, c) ==
    \E overflow_checks \in BOOLEAN : IsSome(get_piece(board, Point(r, c), overflow_checks))

\* C30: the text layout agrees with the coordinate mapper: for every board size
\* N and every cell, if get_piece accepts the Public Point (r, c) for that
\* cell, then in serialize() the symbol of that cell is the character at
\* 0-based index c of line r (1-based), and every other character of the line
\* is a space.
C30_TextAgreesWithMapper ==
    Returned("serialize") =>
        /\ IsSome(result)
        /\ \A point \in Queries(N), overflow_checks \in BOOLEAN :
              IsSome(get_piece(board, point, overflow_checks)) =>
                 /\ point.row \in 1..Len(lines)
                 /\ point.column + 1 \in 1..Len(lines[point.row])
                 /\ lines[point.row][point.column + 1]
                       = symbols[get_piece(board, point, overflow_checks).val]
        /\ \A r \in 1..Len(lines) : \A c \in 0..(Len(lines[r]) - 1) :
              ~Accepted(r, c) => lines[r][c + 1] = " "

\* a board of size 2 or more that holds a piece out of its home has been
\* serialized, and the line of its widest row ends in the symbol of a cell
C30_Witness ==
    /\ Returned("serialize")
    /\ N >= 2
    /\ board # BoardNew(N) /\ board # AllWon(N)
    /\ IsSome(result)
    /\ Accepted(N + 1, 6 * N + 1)
    /\ lines[N + 1][6 * N + 2] # " "

\* the players take the turns in the order of the script: Head, Tail, Head
Scripted ==
    /\ Len(game.pieces) >= 2
    /\ game.pieces[1] = "Head" /\ game.pieces[2] = "Tail"
    /\ Len(game.pieces) >= 3 => game.pieces[3] = "Head"

\* C24: starting from the default N=4 board, the scripted turns Head
\* [(4,10),(5,11)], then Tail [(14,16),(13,15)], then Head
\* [(3,11),(5,13),(5,9)], applied in this order by take_turn, all return Ok;
\* afterwards Head occupies (5,11) and (5,9), Tail occupies (13,15), and
\* (4,10), (3,11), (5,13) and (14,16) are Empty.
C24_ScriptedTurns ==
    Scripted =>
        /\ game.step # "failed"
        /\ op = "take_turn" => result = "Ok"
        /\ game.step \in {"break", "over"} =>
              /\ game.total_turns = 3
              /\ At(board.rows, Point(5, 11)) = "Head"
              /\ At(board.rows, Point(5, 9)) = "Head"
              /\ At(board.rows, Point(13, 15)) = "Tail"
              /\ At(board.rows, Point(4, 10)) = "Empty"
              /\ At(board.rows, Point(3, 11)) = "Empty"
              /\ At(board.rows, Point(5, 13)) = "Empty"
              /\ At(board.rows, Point(14, 16)) = "Empty"

\* the game of Head and Tail is over after the three turns
C24_Witness ==
    /\ Scripted
    /\ game.step = "over"
    /\ game.total_turns = 3
    /\ result = "Ok"

\* a jump whose end points are not two steps apart along a row or a diagonal
OffLine == JumpChecked /\ ~TwoSteps(source, target)

\* C25: the validator does not confirm collinearity: move_piece returns Ok for
\* a distance-2 move whose source and target are not two steps apart along any
\* of the six hex directions (for example two rows apart and not two columns
\* apart), as long as both points are on the board, the target is Empty and
\* the cell at (max(rows)-1, max(columns)-1) exists and is not Empty.
C25_JumpOffLine ==
    /\ OffLine
    /\ IsCell(Checked(source, target))
    /\ At(pre, Checked(source, target)) # "Empty"
    => /\ result = "Ok"
       /\ At(board.rows, target) = player
       /\ At(board.rows, source) = "Empty"

\* a piece has jumped two rows on and landed four or no columns aside
C25_Witness ==
    /\ OffLine
    /\ Apart(source.row, target.row, 2)
    /\ ~Apart(source.column, target.column, 2)
    /\ result = "Ok"
    /\ At(board.rows, target) = player

\* what the cells of a board hold, row after row
Flat(b) ==
    LET cat[n \in 0..Len(b.rows)] == IF n = 0 THEN <<>> ELSE cat[n - 1] \o b.rows[n]
    IN  cat[Len(b.rows)]

\* the number of cells among them that hold the piece
Count(cells, piece) == Len(SelectSeq(cells, LAMBDA x : x = piece))

\* C26: piece conservation: in every state reachable from Board::new(N) by any
\* sequence of move_piece and take_turn calls with any arguments (successful,
\* failing, or partially applied chains), each of the six player pieces is in
\* exactly N(N+1)/2 cells and the number of Empty cells is what it was at
\* first; no piece is created, duplicated, captured or overwritten.
C26_PiecesConserved ==
    LET cells == Flat(board) IN
    /\ \A piece \in Players : Count(cells, piece) = (N * (N + 1)) \div 2
    /\ Count(cells, "Empty") = Count(Flat(BoardNew(N)), "Empty")

\* a chain has failed after its first segment moved the piece
C26_Witness ==
    /\ Returned("take_turn")
    /\ result \in GameError
    /\ board.rows # pre
    /\ \A piece \in Players : Count(Flat(board), piece) = (N * (N + 1)) \div 2

\* the last point of a turn
last == points[Len(points)]

\* C27: after every successful take_turn(points, player) with a non-Empty
\* player, the board differs from the board before in exactly two cells: the
\* first point is Empty and the last point holds the player; in particular a
\* successful turn always changes the board (a chain of jumps cannot end on
\* the cell it started from).
C27_TurnChangesTwoCells ==
    Returned("take_turn") /\ result = "Ok" /\ player # "Empty" =>
        /\ IsCell(source) /\ IsCell(last)
        /\ Changed = {CellOf(source), CellOf(last)}
        /\ CellOf(source) # CellOf(last)
        /\ At(board.rows, source) = "Empty"
        /\ At(board.rows, last) = player
        /\ board.rows # pre

\* C28: move_piece and take_turn never return Ok when the source cell is
\* Empty: passing Empty as the player does not let a caller move an empty
\* cell, so every successful move relocates one of the six player pieces.
C28_NoMoveOfEmpty ==
    /\ Returned("move_piece") \/ Returned("take_turn")
    /\ result = "Ok"
    => /\ IsCell(source)
       /\ At(pre, source) \in Players
       /\ player \in Players

\* C29: on the freshly constructed board Board::new(N), for every N >= 1,
\* has_player_won returns false for all seven Piece variants: the triangle
\* each player has to fill holds the pieces of the player across the board.
C29_NobodyHasWonAtFirst ==
    Returned("has_player_won") /\ board = BoardNew(N) => result = Some(FALSE)

\* a player has been asked about on the fresh board, and the triangle across
\* the board is filled with the pieces of the player who starts there
C29_Witness ==
    /\ Returned("has_player_won")
    /\ board = BoardNew(N)
    /\ player \in Players
    /\ \A c \in Home(Across(player)) : board.rows[c[1]][c[2]] = Across(player)
    /\ result = Some(FALSE)

\* play has returned, Ok or an error
Returns == game.step \in {"over", "failed"}

\* take_turn has just returned to play
TurnReturned == op = "take_turn" /\ game.step \in {"draw", "failed"}

\* the piece is in the list of those still playing
StillPlaying(piece) == \E k \in 1..Len(game.playing) : game.playing[k] = piece

\* what holds of play at every step: at most 3 take_turn calls, each with the
\* next scripted turn, the players of the list taking them in order as long as
\* nobody has finished; Ok without a turn for fewer than two players; the
\* error returned is that of the last take_turn
PlayBounded ==
    /\ calls <= 3
    /\ TurnReturned =>
          /\ points = turns[calls]
          /\ game.victorious = <<>> =>
                player = game.pieces[((calls - 1) % Len(game.pieces)) + 1]
    /\ Len(game.pieces) < 2 => calls = 0 /\ game.step # "failed"
    /\ game.step = "over" => result = "Ok"
    /\ game.step = "failed" => op = "take_turn" /\ result \in GameError

\* a turn is handed to a player who is still playing
HandedToPlaying == TurnReturned => StillPlaying(player)

PlayInOrder == PlayBounded /\ HandedToPlaying

\* a bound on the steps play has yet to take: ten for every scripted turn not
\* yet counted, and the place within the round
StepsLeft(g) ==
    CASE g.step \in {"over", "failed"} -> 0
      [] g.step = "break" -> 1
      [] g.step = "won" -> 10 * (3 - g.total_turns) + 3
      [] g.step = "draw" -> 10 * (3 - g.total_turns) + 4
      [] g.step = "for" /\ g.at <= Len(g.round) -> 10 * (3 - g.total_turns) + 5
      [] g.step = "while" -> 10 * (3 - g.total_turns) + 6
      [] g.step = "for" /\ g.at > Len(g.round) -> 10 * (3 - g.total_turns) + 7

\* the steps of play other than the call of take_turn, which is taken
\* whenever a turn is at hand
StepAside == EnterRound \/ LoopEnds \/ EndRound \/ Break \/ Draw \/ CheckWon \/ GameOver

====
